---------------------------- MODULE Spec2Model ----------------------------
(***************************************************************************)
(* A model of src/app.py: the Flask handlers /run, /ai-run and /ai-chat,   *)
(* the nine functions of TOOL_FUNCTIONS, the bounded tool-call loop of     *)
(* ai_chat and the process-wide session map conversation_sessions.         *)
(*                                                                         *)
(* Python strings are TLA+ strings and the string methods the code calls   *)
(* (strip, lower, upper, startswith, in, min over keys, str(int)) are      *)
(* computed character by character.  The database driver and the model     *)
(* SDK are the environment: every call into them takes its outcome (a      *)
(* result or an exception) from an input of the action.                    *)
(***************************************************************************)
EXTENDS Integers, Sequences, FiniteSets, TLC

VARIABLES
    model_ok,               \* module global `model` is not None (app.py:38-200)
    conversation_sessions,  \* the dict of app.py:203, in insertion order
    pc,                     \* position of the request being handled
    endpoint,               \* route of the request being handled
    request,                \* the request's JSON body (or the tool call made)
    driver,                 \* what the driver does for a /run, /ai-run or tool call
    session_id,             \* ai_chat local
    current_message,        \* ai_chat local
    chat_history,           \* ai_chat local: the conversation handed to the SDK
    stub,                   \* behaviour of the model API during this request
    sent,                   \* the messages passed to chat.send_message so far
    response,               \* ai_chat local: the last model response
    tool_calls,             \* ai_chat local
    iterations,             \* ai_chat local
    requested,              \* history: every function call the model requested
    dispatched,             \* history: the calls each pass of the loop went through
    driver_log,             \* history: driver calls made for this request
    http,                   \* the HTTP response (or tool result) produced
    served,                 \* history: session ids in order of first success
    handled,                \* history: requests counted by the specification
    threads                 \* concurrent /ai-chat requests: each one's position and locals

vars == <<model_ok, conversation_sessions, pc, endpoint, request, driver, session_id,
          current_message, chat_history, stub, sent, response, tool_calls,
          iterations, requested, dispatched, driver_log, http, served, handled,
          threads>>

-----------------------------------------------------------------------------
(* Bounds of the model *)

\* number of fragments a /run, /ai-run or tool query is put together from
MaxFrags == 2
\* requests the session-map specification makes once the map is filled
MaxExtra == 3
\* session identifiers beyond the cap that the session-map specification uses
ExtraIds == 2
MaxTurns == 3
BigRows == 60

(* Program constants *)

\* max_iterations = 15
max_iterations == 15
\* if len(conversation_sessions) > 100
SessionCap == 100

-----------------------------------------------------------------------------
(* Python str operations *)

UpperChars == "ABCDEFGHIJKLMNOPQRSTUVWXYZ"
LowerChars == "abcdefghijklmnopqrstuvwxyz"
Digits == "0123456789"
\* code point order of the characters the model uses (space and the control
\* characters first, then digits, upper case, lower case)
CharOrder == "\t\n " \o Digits \o UpperChars \o LowerChars

Ch(s, i) == SubSeq(s, i, i)

Rest(s) == SubSeq(s, 2, Len(s))

IndexIn(c, alphabet) == CHOOSE i \in 1..Len(alphabet) : Ch(alphabet, i) = c

CharsOf(alphabet) == {Ch(alphabet, i) : i \in 1..Len(alphabet)}

UpperSet == CharsOf(UpperChars)

LowerSet == CharsOf(LowerChars)

ToLower == [c \in UpperSet |-> Ch(LowerChars, IndexIn(c, UpperChars))]

ToUpper == [c \in LowerSet |-> Ch(UpperChars, IndexIn(c, LowerChars))]

CodePoint == [c \in CharsOf(CharOrder) |-> IndexIn(c, CharOrder)]

LowerCh(c) == IF c \in UpperSet THEN ToLower[c] ELSE c

UpperCh(c) == IF c \in LowerSet THEN ToUpper[c] ELSE c

RECURSIVE lower(_)
lower(s) == IF s = "" THEN "" ELSE LowerCh(Ch(s, 1)) \o lower(Rest(s))

RECURSIVE upper(_)
upper(s) == IF s = "" THEN "" ELSE UpperCh(Ch(s, 1)) \o upper(Rest(s))

IsSpace(c) == c \in {" ", "\t", "\n"}

RECURSIVE lstrip(_)
lstrip(s) == IF s # "" /\ IsSpace(Ch(s, 1)) THEN lstrip(Rest(s)) ELSE s

RECURSIVE rstrip(_)
rstrip(s) ==
    IF s # "" /\ IsSpace(Ch(s, Len(s))) THEN rstrip(SubSeq(s, 1, Len(s) - 1)) ELSE s

strip(s) == rstrip(lstrip(s))

startswith(s, prefix) == Len(s) >= Len(prefix) /\ SubSeq(s, 1, Len(prefix)) = prefix

\* Python's `sub in s`
contains(s, sub) ==
    \E i \in 1..(Len(s) + 1) :
        i + Len(sub) - 1 <= Len(s) /\ SubSeq(s, i, i + Len(sub) - 1) = sub

\* str(n) of a non-negative int
RECURSIVE Dec(_)
Dec(n) == IF n < 10 THEN Ch(Digits, n + 1) ELSE Dec(n \div 10) \o Ch(Digits, (n % 10) + 1)

\* Python's a < b on str: by code point, a proper prefix first
RECURSIVE StrLess(_, _)
StrLess(a, b) ==
    IF b = "" THEN FALSE
    ELSE IF a = "" THEN TRUE
    ELSE IF Ch(a, 1) = Ch(b, 1) THEN StrLess(Rest(a), Rest(b))
    ELSE CodePoint[Ch(a, 1)] < CodePoint[Ch(b, 1)]

\* min(keys) of a non-empty set of str
MinStr(S) == CHOOSE k \in S : \A o \in S : o = k \/ StrLess(k, o)

-----------------------------------------------------------------------------
(* The database driver (flask_mysqldb / MySQLdb), as the handlers use it *)

\* The step of a database call at which the driver raises, or "none".
FailPoints == {"none", "cursor", "execute", "fetch", "commit", "close"}

\* What the driver does during one database call: where it raises, whether
\* the statement produced a result set (cur.description is not None), how
\* many rows it holds and the affected-row count it reports.
DriverBehaviours ==
    {d \in [fail : FailPoints, desc : BOOLEAN, nrows : 0..1, rowcount : 0..1] :
        /\ (d.fail # "none") => (d.desc /\ d.nrows = 1 /\ d.rowcount = 1)
        /\ d.desc => d.rowcount = d.nrows
        /\ ~d.desc => d.nrows = 0}
    \cup {[fail |-> "none", desc |-> TRUE, nrows |-> BigRows, rowcount |-> BigRows]}

DriverOK == [fail |-> "none", desc |-> TRUE, nrows |-> 1, rowcount |-> 1]

\* str(e) of the exception the driver raises at a step
DriverError(step) == "OperationalError at " \o step

\* str(e) of iterating cur.description when it is None
NoneTypeError == "TypeError: 'NoneType' object is not iterable"

\* The calls made on the driver, as driver_log records them
Call(op) == [op |-> op, stmt |-> ""]

Executed(stmt) == [op |-> "execute", stmt |-> stmt]

Committed == Call("commit")

\* [d[0] for d in cur.description]
Columns == <<"c1">>

\* cur.fetchall(): n rows, as dict(zip(columns, row)) makes them
RowMappings(n) == [i \in 1..n |-> [c1 |-> "v" \o Dec(i)]]

\* The stand-in for the backquote of the f-strings, which a TLA+ string
\* cannot hold.
BQ == "'"

\* An outcome of DbRead: the exception that ended it ("" when none did), the
\* driver calls made, and the columns and rows read.
DbOutcome(exc, ops, cols, rows) == [exc |-> exc, ops |-> ops, cols |-> cols, rows |-> rows]

\* cursor(), execute(stmt), the read of cur.description, fetchall()/fetchone()
\* and close(), in the order the tools and /ai-run make them.  usesDesc: the
\* caller iterates cur.description; guarded: it does so only `if
\* cur.description`.
DbRead(stmt, drv, usesDesc, guarded) ==
    LET c1 == <<Call("cursor")>>
        c2 == Append(c1, Executed(stmt))
        c3 == Append(c2, Call("fetch"))
        c4 == Append(c3, Call("close"))
    IN  IF drv.fail = "cursor" THEN DbOutcome(DriverError("cursor"), c1, <<>>, <<>>)
        ELSE IF drv.fail = "execute" THEN DbOutcome(DriverError("execute"), c2, <<>>, <<>>)
        ELSE IF usesDesc /\ ~guarded /\ ~drv.desc THEN DbOutcome(NoneTypeError, c2, <<>>, <<>>)
        ELSE IF drv.fail = "fetch" THEN DbOutcome(DriverError("fetch"), c3, <<>>, <<>>)
        ELSE IF drv.fail = "close" THEN DbOutcome(DriverError("close"), c4, <<>>, <<>>)
        ELSE DbOutcome("", c4, IF drv.desc THEN Columns ELSE <<>>,
                       IF drv.desc THEN RowMappings(drv.nrows) ELSE <<>>)

-----------------------------------------------------------------------------
(* Database tool functions: each returns its envelope and the driver calls *)
(* it made.  Every body is one try/except Exception.                       *)

Failure_NoMessage(msg) == [success |-> FALSE]

\* return {"success": False, "error": str(e)}
Failure(msg) == [success |-> FALSE, error |-> msg]

\* app.config["MYSQL_DB"]
MYSQL_DB == "db"

list_tables(drv) ==
    LET r == DbRead("SHOW TABLES", drv, FALSE, FALSE) IN
    IF r.exc # "" THEN [env |-> Failure(r.exc), ops |-> r.ops]
    ELSE [env |-> [success |-> TRUE, tables |-> r.rows, count |-> Len(r.rows),
                   message |-> "Found " \o Dec(Len(r.rows)) \o " tables in database"],
          ops |-> r.ops]

describe_table(table_name, drv) ==
    LET r == DbRead("DESCRIBE " \o BQ \o table_name \o BQ, drv, FALSE, FALSE) IN
    IF r.exc # "" THEN [env |-> Failure(r.exc), ops |-> r.ops]
    ELSE [env |-> [success |-> TRUE, table |-> table_name, columns |-> r.rows,
                   column_count |-> Len(r.rows),
                   message |-> "Table '" \o table_name \o "' has "
                               \o Dec(Len(r.rows)) \o " columns"],
          ops |-> r.ops]

get_foreign_keys(table_name, drv) ==
    LET query == "SELECT COLUMN_NAME, REFERENCED_TABLE_NAME, REFERENCED_COLUMN_NAME, "
                 \o "CONSTRAINT_NAME FROM INFORMATION_SCHEMA.KEY_COLUMN_USAGE "
                 \o "WHERE TABLE_SCHEMA = '" \o MYSQL_DB \o "' AND TABLE_NAME = '"
                 \o table_name \o "' AND REFERENCED_TABLE_NAME IS NOT NULL"
        r == DbRead(query, drv, FALSE, FALSE)
    IN  IF r.exc # "" THEN [env |-> Failure(r.exc), ops |-> r.ops]
        ELSE [env |-> [success |-> TRUE, table |-> table_name,
                       foreign_keys |-> r.rows, count |-> Len(r.rows),
                       message |-> "Found " \o Dec(Len(r.rows))
                                   \o " foreign key(s) in '" \o table_name \o "'"],
              ops |-> r.ops]

\* limit = min(max(1, limit), 50)
ClampLimit_NoCeiling(limit) == IF limit > 1 THEN limit ELSE 1

\* limit = min(max(1, limit), 50)
ClampLimit(limit) ==
    LET lo == IF limit > 1 THEN limit ELSE 1 IN IF lo < 50 THEN lo ELSE 50

\* What the server returns for a statement that ends in LIMIT n: the first
\* n rows of the result at most.
Limited(rows, n) == SubSeq(rows, 1, IF Len(rows) < n THEN Len(rows) ELSE n)

preview_table_data(table_name, limit, drv) ==
    LET capped == ClampLimit(limit)
        query == "SELECT * FROM " \o BQ \o table_name \o BQ \o " LIMIT " \o Dec(capped)
        r == DbRead(query, drv, TRUE, FALSE)
        data == Limited(r.rows, capped)
    IN  IF r.exc # "" THEN [env |-> Failure(r.exc), ops |-> r.ops]
        ELSE [env |-> [success |-> TRUE, table |-> table_name, columns |-> r.cols,
                       data |-> data, row_count |-> Len(data),
                       message |-> "Retrieved " \o Dec(Len(data)) \o " rows from '"
                                   \o table_name \o "'"],
              ops |-> r.ops]

SelectQueryAllowed_Anywhere(query) ==
    LET query_upper == upper(strip(query)) IN
    \/ contains(query_upper, "SELECT")
    \/ contains(query_upper, "SHOW")
    \/ contains(query_upper, "DESCRIBE")

\* query_upper = query.strip().upper(); the three startswith tests
SelectQueryAllowed(query) ==
    LET query_upper == upper(strip(query)) IN
    \/ startswith(query_upper, "SELECT")
    \/ startswith(query_upper, "SHOW")
    \/ startswith(query_upper, "DESCRIBE")

execute_select_query(query, purpose, drv) ==
    IF ~SelectQueryAllowed(query) THEN
        [env |-> Failure("Only SELECT, SHOW, and DESCRIBE queries are allowed with this tool"),
         ops |-> <<>>]
    ELSE
        LET r == DbRead(query, drv, TRUE, TRUE) IN
        IF r.exc # "" THEN
            [env |-> [success |-> FALSE, error |-> r.exc, query |-> query], ops |-> r.ops]
        ELSE [env |-> [success |-> TRUE, query |-> query, purpose |-> purpose,
                       columns |-> r.cols, data |-> r.rows, row_count |-> Len(r.rows),
                       message |-> "Query executed successfully, returned "
                                   \o Dec(Len(r.rows)) \o " rows"],
              ops |-> r.ops]

get_table_relationships(drv) ==
    LET query == "SELECT TABLE_NAME, COLUMN_NAME, REFERENCED_TABLE_NAME, "
                 \o "REFERENCED_COLUMN_NAME, CONSTRAINT_NAME "
                 \o "FROM INFORMATION_SCHEMA.KEY_COLUMN_USAGE WHERE TABLE_SCHEMA = '"
                 \o MYSQL_DB \o "' AND REFERENCED_TABLE_NAME IS NOT NULL "
                 \o "ORDER BY TABLE_NAME, COLUMN_NAME"
        r == DbRead(query, drv, FALSE, FALSE)
    IN  IF r.exc # "" THEN [env |-> Failure(r.exc), ops |-> r.ops]
        ELSE [env |-> [success |-> TRUE, relationships |-> r.rows, count |-> Len(r.rows),
                       message |-> "Found " \o Dec(Len(r.rows))
                                   \o " foreign key relationship(s)"],
              ops |-> r.ops]

\* count = cur.fetchone()[0]: fetchone() is None when there is no row
count_records(table_name, where_clause, drv) ==
    LET base == "SELECT COUNT(*) FROM " \o BQ \o table_name \o BQ
        query == IF where_clause # "" THEN base \o " WHERE " \o where_clause ELSE base
        r == DbRead(query, drv, FALSE, FALSE)
    IN  IF r.exc = "" /\ r.rows = <<>> THEN
            [env |-> Failure("TypeError: 'NoneType' object is not subscriptable"),
             ops |-> r.ops]
        ELSE IF r.exc # "" THEN [env |-> Failure(r.exc), ops |-> r.ops]
        ELSE [env |-> [success |-> TRUE, table |-> table_name, count |-> r.rows[1].c1,
                       where |-> IF where_clause # "" THEN where_clause ELSE "none",
                       message |-> "Found " \o r.rows[1].c1 \o " record(s) in '"
                                   \o table_name \o "'"
                                   \o (IF where_clause # "" THEN " where " \o where_clause
                                       ELSE "")],
              ops |-> r.ops]

search_records(table_name, search_column, search_value, drv) ==
    LET query == "SELECT * FROM " \o BQ \o table_name \o BQ \o " WHERE " \o BQ
                 \o search_column \o BQ \o " LIKE %s LIMIT 10"
        r == DbRead(query, drv, TRUE, FALSE)
    IN  IF r.exc # "" THEN [env |-> Failure(r.exc), ops |-> r.ops]
        ELSE [env |-> [success |-> TRUE, table |-> table_name,
                       search_column |-> search_column, search_value |-> search_value,
                       results |-> r.rows, count |-> Len(r.rows),
                       message |-> "Found " \o Dec(Len(r.rows)) \o " record(s) matching '"
                                   \o search_value \o "' in " \o search_column],
              ops |-> r.ops]

\* dangerous_keywords of execute_autonomous_query
ToolDangerousKeywords == {"DROP", "TRUNCATE", "DELETE", "INSERT", "UPDATE", "ALTER", "CREATE"}

\* the two safety checks of execute_autonomous_query: "" when the query may
\* run, else the error of the rejection
AutonomousRejection(query) ==
    LET uppered == upper(query) IN
    IF ~startswith(upper(strip(query)), "SELECT") THEN
        "Autonomous execution only allows SELECT queries"
    ELSE IF \E keyword \in ToolDangerousKeywords : contains(uppered, keyword) THEN
        "Dangerous operations not allowed in autonomous mode"
    ELSE ""

execute_autonomous_query(query, purpose, drv) ==
    LET rejection == AutonomousRejection(query) IN
    IF rejection = "Autonomous execution only allows SELECT queries" THEN
        [env |-> [success |-> FALSE, error |-> rejection, query |-> query,
                  purpose |-> purpose],
         ops |-> <<>>]
    ELSE IF rejection # "" THEN
        [env |-> [success |-> FALSE, error |-> rejection, query |-> query], ops |-> <<>>]
    ELSE
        LET r == DbRead(query, drv, TRUE, TRUE) IN
        IF r.exc # "" THEN
            [env |-> [success |-> FALSE, error |-> r.exc, query |-> query,
                      purpose |-> purpose],
             ops |-> r.ops]
        ELSE [env |-> [success |-> TRUE, query |-> query, purpose |-> purpose,
                       columns |-> r.cols, data |-> r.rows, row_count |-> Len(r.rows),
                       message |-> "Autonomous query successful: " \o Dec(Len(r.rows))
                                   \o " rows returned",
                       autonomous |-> TRUE],
              ops |-> r.ops]

\* The keys of TOOL_FUNCTIONS
ToolNames == {"list_tables", "describe_table", "get_foreign_keys", "preview_table_data",
              "execute_select_query", "execute_autonomous_query",
              "get_table_relationships", "count_records", "search_records"}

\* The parameters of each function's signature, and those without a default
Params(name) ==
    CASE name = "list_tables" -> {}
      [] name = "describe_table" -> {"table_name"}
      [] name = "get_foreign_keys" -> {"table_name"}
      [] name = "preview_table_data" -> {"table_name", "limit"}
      [] name = "execute_select_query" -> {"query", "purpose"}
      [] name = "execute_autonomous_query" -> {"query", "purpose"}
      [] name = "get_table_relationships" -> {}
      [] name = "count_records" -> {"table_name", "where_clause"}
      [] name = "search_records" -> {"table_name", "search_column", "search_value"}

Required(name) ==
    CASE name = "preview_table_data" -> {"table_name"}
      [] name = "execute_select_query" -> {"query"}
      [] name = "count_records" -> {"table_name"}
      [] OTHER -> Params(name)

Arg(args, key, default) == IF key \in DOMAIN args THEN args[key] ELSE default

\* TOOL_FUNCTIONS[function_name](**function_args): Python binds the keyword
\* arguments first and raises TypeError, outside the function's own try, when
\* a required one is missing or an unknown one is passed.
Binds(name, args) == Required(name) \subseteq DOMAIN args /\ DOMAIN args \subseteq Params(name)

InvokeTool(name, args, drv) ==
    IF ~Binds(name, args) THEN
        [exc |-> "TypeError: " \o name \o "() got wrong arguments",
         env |-> [success |-> FALSE], ops |-> <<>>]
    ELSE
        LET r == CASE name = "list_tables" -> list_tables(drv)
                   [] name = "describe_table" -> describe_table(args.table_name, drv)
                   [] name = "get_foreign_keys" -> get_foreign_keys(args.table_name, drv)
                   [] name = "preview_table_data" ->
                        preview_table_data(args.table_name, Arg(args, "limit", 10), drv)
                   [] name = "execute_select_query" ->
                        execute_select_query(args.query, Arg(args, "purpose", ""), drv)
                   [] name = "execute_autonomous_query" ->
                        execute_autonomous_query(args.query, args.purpose, drv)
                   [] name = "get_table_relationships" -> get_table_relationships(drv)
                   [] name = "count_records" ->
                        count_records(args.table_name, Arg(args, "where_clause", ""), drv)
                   [] name = "search_records" ->
                        search_records(args.table_name, args.search_column,
                                       args.search_value, drv)
        IN  [exc |-> "", env |-> r.env, ops |-> r.ops]

-----------------------------------------------------------------------------
(* /run and /ai-run: the HTTP status, the JSON body and the driver calls *)

\* A JSON value that is a list, and one that is a string
JList(rows) == [list |-> rows]

JStr(text) == [str |-> text]

\* blocked, and the any(...) test over query.lower()
Blocked == {"drop database", "truncate database"}

IsBlocked_CaseSensitive(query) == \E word \in Blocked : contains(query, word)

IsBlocked(query) ==
    LET lowered == lower(query) IN \E word \in Blocked : contains(lowered, word)

\* the three startswith tests of run_query on query.lower()
IsReadStatement(query) ==
    LET lowered == lower(query) IN
    \/ startswith(lowered, "select")
    \/ startswith(lowered, "show")
    \/ startswith(lowered, "describe")

\* The try block of run_query on the stripped query.
RunExecute(query, drv) ==
    LET c1 == <<Call("cursor")>>
        c2 == Append(c1, Executed(query))
        failed(step, ops) ==
            [status |-> 200, body |-> Failure(DriverError(step)), ops |-> ops]
    IN  IF drv.fail = "cursor" THEN failed("cursor", c1)
        ELSE IF drv.fail = "execute" THEN failed("execute", c2)
        ELSE IF IsReadStatement(query) THEN
            IF ~drv.desc THEN [status |-> 200, body |-> Failure(NoneTypeError), ops |-> c2]
            ELSE IF drv.fail = "fetch" THEN failed("fetch", Append(c2, Call("fetch")))
            ELSE IF drv.fail = "close" THEN
                failed("close", c2 \o <<Call("fetch"), Call("close")>>)
            ELSE [status |-> 200,
                  body |-> [success |-> TRUE, data |-> JList(RowMappings(drv.nrows))],
                  ops |-> c2 \o <<Call("fetch"), Call("close")>>]
        ELSE
            IF drv.fail = "commit" THEN failed("commit", Append(c2, Committed))
            ELSE IF drv.fail = "close" THEN failed("close", c2 \o <<Committed, Call("close")>>)
            ELSE [status |-> 200,
                  body |-> [success |-> TRUE,
                            data |-> JStr("Query executed successfully. Rows affected: "
                                          \o Dec(drv.rowcount))],
                  ops |-> c2 \o <<Committed, Call("close")>>]

\* run_query, for the "query" of the request body
run_query(raw, drv) ==
    LET query == strip(raw) IN
    IF query = "" THEN [status |-> 200, body |-> Failure("Empty query."), ops |-> <<>>]
    ELSE IF IsBlocked(query) THEN
        [status |-> 200, body |-> Failure("Dangerous query blocked for safety."),
         ops |-> <<>>]
    ELSE RunExecute(query, drv)

\* dangerous_keywords of ai_autonomous_query
RouteDangerousKeywords ==
    {"drop", "truncate", "delete", "insert", "update", "alter", "create", "grant",
     "revoke", "replace"}

\* the two safety checks of ai_autonomous_query on the stripped query: "" when
\* it may run, else the error of the rejection
AiRunRejection(query) ==
    LET lowered == lower(query) IN
    IF ~startswith(strip(lowered), "select") THEN
        "AI autonomous execution only allows SELECT queries for safety."
    ELSE IF \E keyword \in RouteDangerousKeywords : contains(lowered, keyword) THEN
        "Dangerous operation blocked in AI autonomous mode."
    ELSE ""

\* ai_autonomous_query, for the "query" and "purpose" of the request body
ai_autonomous_query(raw, purpose, drv) ==
    LET query == strip(raw)
        rejection == AiRunRejection(query)
    IN
    IF query = "" THEN [status |-> 200, body |-> Failure("Empty query."), ops |-> <<>>]
    ELSE IF rejection # "" THEN
        [status |-> 200, body |-> Failure(rejection), ops |-> <<>>]
    ELSE
        LET r == DbRead(query, drv, TRUE, TRUE) IN
        IF r.exc # "" THEN
            [status |-> 200,
             body |-> [success |-> FALSE, error |-> r.exc, query |-> query,
                       purpose |-> purpose, autonomous |-> TRUE],
             ops |-> r.ops]
        ELSE [status |-> 200,
              body |-> [success |-> TRUE, data |-> JList(r.rows), rowCount |-> Len(r.rows),
                        columns |-> r.cols, purpose |-> purpose, query |-> query,
                        autonomous |-> TRUE],
              ops |-> r.ops]

-----------------------------------------------------------------------------
(* The session map: a Python dict, which keeps its keys in insertion order *)

Keys(sessions) == {sessions[i].key : i \in 1..Len(sessions)}

IndexOf(sessions, key) == CHOOSE i \in 1..Len(sessions) : sessions[i].key = key

\* conversation_sessions[key]
History(sessions, key) == sessions[IndexOf(sessions, key)].msgs

\* if session_id not in conversation_sessions: conversation_sessions[session_id] = []
GetOrCreate(sessions, key) ==
    IF key \in Keys(sessions) THEN sessions
    ELSE Append(sessions, [key |-> key, msgs |-> <<>>])

AppendMessage_AllSessions(sessions, key, msg) ==
    [i \in 1..Len(sessions) |-> [sessions[i] EXCEPT !.msgs = Append(@, msg)]]

\* conversation_sessions[key].append(msg)
AppendMessage(sessions, key, msg) ==
    [sessions EXCEPT ![IndexOf(sessions, key)].msgs = Append(@, msg)]

\* del conversation_sessions[key]
Delete(sessions, key) ==
    LET i == IndexOf(sessions, key) IN
    SubSeq(sessions, 1, i - 1) \o SubSeq(sessions, i + 1, Len(sessions))

\* oldest_key = min(conversation_sessions.keys())
OldestKey(sessions) == MinStr(Keys(sessions))

\* Clean up old sessions (keep last 100)
CleanUp(sessions) ==
    IF Len(sessions) > SessionCap THEN Delete(sessions, OldestKey(sessions))
    ELSE sessions

-----------------------------------------------------------------------------
(* The model API (google.generativeai), as ai_chat uses it *)

SYSTEM_PROMPT == "You are an expert MySQL database assistant"

SystemAck == "Understood! I'm your expert MySQL assistant"

TableArgs == [table_name |-> "orders"]

\* The function calls a response of the model may hold: each with the name
\* and arguments of function_call and what the driver does if it is run.
CallPattern(pattern) ==
    CASE pattern = "one" ->
            <<[name |-> "describe_table", args |-> TableArgs, drv |-> DriverOK]>>
      [] pattern = "two" ->
            <<[name |-> "preview_table_data",
               args |-> [table_name |-> "orders", limit |-> 1000], drv |-> DriverOK],
              [name |-> "execute_select_query",
               args |-> [query |-> "SELECT 1", purpose |-> "check"], drv |-> DriverOK]>>
      [] pattern = "unknown" ->
            <<[name |-> "drop_table", args |-> TableArgs, drv |-> DriverOK]>>
      [] pattern = "mixed" ->
            <<[name |-> "get_foreign_keys", args |-> TableArgs, drv |-> DriverOK],
              [name |-> "run_sql", args |-> TableArgs, drv |-> DriverOK],
              [name |-> "count_records", args |-> TableArgs, drv |-> DriverOK]>>
      [] pattern = "dbfail" ->
            <<[name |-> "count_records", args |-> TableArgs,
               drv |-> [DriverOK EXCEPT !.fail = "execute"]]>>
      [] pattern = "badargs" ->
            <<[name |-> "search_records", args |-> TableArgs, drv |-> DriverOK]>>

Patterns == {"one", "two", "unknown", "mixed", "dbfail", "badargs"}

\* How the model API behaves during one request: its first `rounds` responses
\* hold the function calls of `pattern` and every later one holds none (more
\* rounds than the cap: it never stops asking); send_message call number
\* apiFailAt raises (0: none does); strictText: the SDK's response.text raises
\* ValueError on a response that holds function_call parts (the SDK versions
\* differ: others return the text parts joined).
Stubs ==
    [rounds : 0..(max_iterations + 1), pattern : Patterns, apiFailAt : 0..2,
     strictText : BOOLEAN]

NoStub == [rounds |-> 0, pattern |-> "one", apiFailAt |-> 0, strictText |-> FALSE]

\* The n-th response of the request (n = 1 for the reply to the user message)
ModelResponse(st, n) ==
    [calls |-> IF n <= st.rounds THEN CallPattern(st.pattern) ELSE <<>>,
     text |-> "answer " \o Dec(n)]

NoResponse == [calls |-> <<>>, text |-> ""]

ApiError == "ResourceExhausted: 429 quota exceeded"

TextError == "ValueError: Could not convert part.function_call to text"

-----------------------------------------------------------------------------
(* /ai-chat *)

NoHttp == [status |-> 0, body |-> [none |-> TRUE]]

\* return jsonify({"success": False, "error": ...}), status
ErrorResponse(status, msg) == [status |-> status, body |-> Failure(msg)]

\* role = "user" if msg["role"] == "user" else "model"
GeminiRole(role) == IF role = "user" THEN "user" ELSE "model"

\* chat_history as lines 631-657 build it from the stored messages
BuildChatHistory(stored, message) ==
    (IF stored = <<>>
     THEN <<[role |-> "user", parts |-> <<SYSTEM_PROMPT>>],
            [role |-> "model", parts |-> <<SystemAck>>]>>
     ELSE <<>>)
    \o [i \in 1..Len(stored) |->
            [role |-> GeminiRole(stored[i].role), parts |-> <<stored[i].content>>]]
    \o <<[role |-> "user", parts |-> <<message>>]>>

\* The for loop over function_calls_in_response (lines 689-718): the records
\* appended to tool_calls, the function_responses built and the driver calls
\* made, or the exception that a call raised.
RECURSIVE Dispatch(_, _, _)
Dispatch(calls, iteration, acc) ==
    IF calls = <<>> \/ acc.exc # "" THEN acc
    ELSE
        LET function_call == Head(calls) IN
        IF function_call.name \in ToolNames THEN
            LET r == InvokeTool(function_call.name, function_call.args, function_call.drv)
            IN  IF r.exc # "" THEN [acc EXCEPT !.exc = r.exc]
                ELSE Dispatch(Tail(calls), iteration,
                        [exc |-> "",
                         records |-> Append(acc.records,
                                        [function |-> function_call.name,
                                         args |-> function_call.args,
                                         result |-> r.env,
                                         iteration |-> iteration]),
                         function_responses |-> Append(acc.function_responses,
                                        [name |-> function_call.name,
                                         response |-> r.env]),
                         ops |-> acc.ops \o r.ops])
        ELSE Dispatch(Tail(calls), iteration, acc)

DispatchStart == [exc |-> "", records |-> <<>>, function_responses |-> <<>>, ops |-> <<>>]

\* The request ends with the HTTP response h.
Respond(h) ==
    /\ http' = h
    /\ pc' = "done"

\* Lines 612-667: the checks of the request, the session's entry, the
\* conversation for the SDK and the first chat.send_message.
ChatBegin(body, st) ==
    /\ pc = "idle"
    /\ endpoint' = "/ai-chat"
    /\ request' = body
    /\ stub' = st
    /\ UNCHANGED <<model_ok, driver, tool_calls, iterations, dispatched, driver_log,
                   served>>
    /\ IF ~model_ok THEN
            /\ Respond(ErrorResponse(500,
                    "Gemini AI is not configured. Please check your API key."))
            /\ UNCHANGED <<conversation_sessions, session_id, current_message,
                           chat_history, sent, response, requested>>
       ELSE IF body.messages = <<>> THEN
            /\ Respond(ErrorResponse(400, "No messages provided"))
            /\ session_id' = Arg(body, "sessionId", "default")
            /\ UNCHANGED <<conversation_sessions, current_message, chat_history,
                           sent, response, requested>>
       ELSE
            LET sid == Arg(body, "sessionId", "default")
                sessions == GetOrCreate(conversation_sessions, sid)
                message == body.messages[Len(body.messages)].content
            IN  /\ session_id' = sid
                /\ conversation_sessions' = sessions
                /\ current_message' = message
                /\ chat_history' = BuildChatHistory(History(sessions, sid), message)
                /\ sent' = <<message>>
                /\ IF st.apiFailAt = 1 THEN
                        /\ Respond(ErrorResponse(500, ApiError))
                        /\ UNCHANGED <<response, requested>>
                   ELSE /\ response' = ModelResponse(st, 1)
                        /\ requested' = ModelResponse(st, 1).calls
                        /\ pc' = "loop"
                        /\ UNCHANGED http

LoopContinues_NoBreak(iters, resp) == iters < max_iterations

\* while iterations < max_iterations, and the break of lines 680-681
LoopContinues(iters, resp) == iters < max_iterations /\ resp.calls # <<>>

\* Lines 675-724: the loop test and one pass of the loop body.
ChatLoop ==
    /\ pc = "loop"
    /\ UNCHANGED <<model_ok, conversation_sessions, endpoint, request, driver,
                   session_id, current_message, chat_history, stub, served>>
    /\ IF ~LoopContinues(iterations, response) THEN
            /\ pc' = "finish"
            /\ UNCHANGED <<sent, response, tool_calls, iterations, requested,
                           dispatched, driver_log, http>>
       ELSE
            LET d == Dispatch(response.calls, iterations + 1, DispatchStart)
                n == Len(sent) + 1
            IN  /\ iterations' = iterations + 1
                /\ dispatched' = Append(dispatched, response.calls)
                /\ driver_log' = driver_log \o d.ops
                /\ tool_calls' = tool_calls \o d.records
                /\ IF d.exc # "" THEN
                        /\ Respond(ErrorResponse(500, d.exc))
                        /\ UNCHANGED <<sent, response, requested>>
                   ELSE IF d.function_responses = <<>> THEN
                        /\ pc' = "loop"
                        /\ UNCHANGED <<sent, response, requested, http>>
                   ELSE
                        /\ sent' = Append(sent, d.function_responses)
                        /\ IF stub.apiFailAt = n THEN
                                /\ Respond(ErrorResponse(500, ApiError))
                                /\ UNCHANGED <<response, requested>>
                           ELSE /\ response' = ModelResponse(stub, n)
                                /\ requested' = requested \o ModelResponse(stub, n).calls
                                /\ pc' = "loop"
                                /\ UNCHANGED http

\* Lines 730-758: the final text, the two appends, the clean-up and the
\* response, whose "history" reads the session's entry again.
ChatFinish ==
    /\ pc = "finish"
    /\ UNCHANGED <<model_ok, endpoint, request, driver, session_id, current_message,
                   chat_history, stub, sent, response, tool_calls, iterations,
                   requested, dispatched, driver_log>>
    /\ IF response.calls # <<>> /\ stub.strictText THEN
            /\ Respond(ErrorResponse(500, TextError))
            /\ UNCHANGED <<conversation_sessions, served>>
       ELSE
            LET response_text == response.text
                appended == AppendMessage(
                                AppendMessage(conversation_sessions, session_id,
                                    [role |-> "user", content |-> current_message]),
                                session_id,
                                [role |-> "assistant", content |-> response_text])
                cleaned == CleanUp(appended)
            IN  /\ conversation_sessions' = cleaned
                /\ IF session_id \notin Keys(cleaned) THEN
                        /\ Respond(ErrorResponse(500, "'" \o session_id \o "'"))
                        /\ UNCHANGED served
                   ELSE /\ Respond([status |-> 200,
                                    body |-> [success |-> TRUE,
                                              response |-> response_text,
                                              tool_calls |-> tool_calls,
                                              iterations |-> iterations,
                                              history |-> History(cleaned, session_id)]])
                        /\ served' = IF \E i \in 1..Len(served) : served[i] = session_id
                                     THEN served ELSE Append(served, session_id)

-----------------------------------------------------------------------------
(* The other operations, and the end of a request *)

chatLocals == <<session_id, current_message, chat_history, stub, sent, response,
                tool_calls, iterations, requested, dispatched>>

\* POST /run with body {"query": raw}
RunQuery(raw, drv) ==
    /\ pc = "idle"
    /\ endpoint' = "/run"
    /\ request' = [query |-> raw]
    /\ driver' = drv
    /\ LET r == run_query(raw, drv) IN
        /\ driver_log' = r.ops
        /\ Respond([status |-> r.status, body |-> r.body])
    /\ UNCHANGED <<model_ok, conversation_sessions, chatLocals, served>>

\* POST /ai-run with body {"query": raw, "purpose": purpose}
AiRun(raw, purpose, drv) ==
    /\ pc = "idle"
    /\ endpoint' = "/ai-run"
    /\ request' = [query |-> raw, purpose |-> purpose]
    /\ driver' = drv
    /\ LET r == ai_autonomous_query(raw, purpose, drv) IN
        /\ driver_log' = r.ops
        /\ Respond([status |-> r.status, body |-> r.body])
    /\ UNCHANGED <<model_ok, conversation_sessions, chatLocals, served>>

\* A call TOOL_FUNCTIONS[name](**args) on its own
ToolCall(name, args, drv) ==
    /\ pc = "idle"
    /\ endpoint' = "tool"
    /\ request' = [name |-> name, args |-> args]
    /\ driver' = drv
    /\ LET r == InvokeTool(name, args, drv) IN
        /\ driver_log' = r.ops
        /\ Respond([status |-> 0, body |-> r.env, raised |-> r.exc])
    /\ UNCHANGED <<model_ok, conversation_sessions, chatLocals, served>>

\* The handler has returned: its locals are gone and the next request may come.
RequestEnd ==
    /\ pc = "done"
    /\ pc' = "idle"
    /\ endpoint' = ""
    /\ request' = [none |-> TRUE]
    /\ driver' = DriverOK
    /\ session_id' = ""
    /\ current_message' = ""
    /\ chat_history' = <<>>
    /\ stub' = NoStub
    /\ sent' = <<>>
    /\ response' = NoResponse
    /\ tool_calls' = <<>>
    /\ iterations' = 0
    /\ requested' = <<>>
    /\ dispatched' = <<>>
    /\ driver_log' = <<>>
    /\ http' = NoHttp
    /\ UNCHANGED <<model_ok, conversation_sessions, served>>

\* The worker threads of the server (Flask's development server handles each
\* request in a thread of its own), and one that handles no request
Threads == {1, 2}

IdleThread == [pc |-> "idle", session_id |-> "", current_message |-> "",
               oldest_key |-> "", http |-> NoHttp]

NoThreads == [t \in Threads |-> IdleThread]

\* The process after start-up: no session, no request.
InitWith(configured) ==
    /\ model_ok \in configured
    /\ conversation_sessions = <<>>
    /\ pc = "idle"
    /\ endpoint = ""
    /\ request = [none |-> TRUE]
    /\ driver = DriverOK
    /\ session_id = ""
    /\ current_message = ""
    /\ chat_history = <<>>
    /\ stub = NoStub
    /\ sent = <<>>
    /\ response = NoResponse
    /\ tool_calls = <<>>
    /\ iterations = 0
    /\ requested = <<>>
    /\ dispatched = <<>>
    /\ driver_log = <<>>
    /\ http = NoHttp
    /\ served = <<>>
    /\ handled = 0
    /\ threads = NoThreads

Init == InitWith(BOOLEAN)

-----------------------------------------------------------------------------
(* Inputs *)

\* The server answers SHOW, DESCRIBE and SELECT with a result set whenever it
\* runs them, except a SELECT ... INTO, which produces none (cur.description
\* is then None, the case lines 419, 558 and 841 test for).
HasResultSet(raw) ==
    LET lowered == lower(strip(raw)) IN
    \/ startswith(lowered, "show")
    \/ startswith(lowered, "describe")
    \/ startswith(lowered, "select") /\ ~contains(lowered, " into ")

UserMessage(text) == [role |-> "user", content |-> text]

\* Number of user turns stored for a session (0 when it has no entry)
Turns(key) ==
    IF key \in Keys(conversation_sessions)
    THEN Len(History(conversation_sessions, key)) \div 2 ELSE 0

\* The query strings put together from at most n fragments
Fragments ==
    {"select", "SELECT", "Show", "describe", " ", "\n", "drop database",
     "DROP DataBase", "truncate database", "drop", " database", "insert", " 1",
     " into @v", "x",
     " replace(a)"}

RECURSIVE QueriesOf(_)
QueriesOf(n) ==
    IF n = 0 THEN {""}
    ELSE LET shorter == QueriesOf(n - 1) IN
         shorter \cup {q \o f : q \in shorter, f \in Fragments}

Queries == QueriesOf(MaxFrags)

\* A few queries for the specification of the whole program
FewQueries == {"", " select 1", "SELECT 1 INTO @x", "update t set a = 1",
               "Drop Database d", "show tables", "delete from t"}

\* The limits preview_table_data is called with
Limits == {-3, 0, 1, 10, 50, 51, 1000}

\* Tool calls made on their own: each function with arguments that bind, and
\* one call that does not
ToolCalls ==
    {[name |-> "list_tables", args |-> <<>>],
     [name |-> "get_table_relationships", args |-> <<>>],
     [name |-> "describe_table", args |-> TableArgs],
     [name |-> "get_foreign_keys", args |-> TableArgs],
     [name |-> "preview_table_data", args |-> TableArgs],
     [name |-> "count_records", args |-> TableArgs],
     [name |-> "count_records",
      args |-> [table_name |-> "orders", where_clause |-> "paid = 1"]],
     [name |-> "search_records",
      args |-> [table_name |-> "orders", search_column |-> "name",
                search_value |-> "Doe"]],
     [name |-> "search_records", args |-> TableArgs]}
    \cup {[name |-> n, args |-> [query |-> q, purpose |-> "check"]] :
            n \in {"execute_select_query", "execute_autonomous_query"},
            q \in FewQueries}
    \cup {[name |-> "preview_table_data",
           args |-> [table_name |-> "orders", limit |-> n]] : n \in Limits}

QueryToolCalls ==
    {[name |-> n, args |-> [query |-> q, purpose |-> "check"]] :
        n \in {"execute_select_query", "execute_autonomous_query"}, q \in Queries}

-----------------------------------------------------------------------------
(* The whole program: one session, every model behaviour, a few queries *)

ChatBodies ==
    {[messages |-> <<>>],
     [messages |-> <<UserMessage("how many orders?")>>],
     [messages |-> <<UserMessage("hello"), UserMessage("list my tables")>>,
      sessionId |-> "default"]}

\* pc = "idle" stands before each choice of inputs so that the inputs are
\* enumerated only where a request can start.  A chat request is the first of
\* its session (later turns are in SpecSessions).
Step ==
    \/ /\ pc = "idle"
       /\ Turns("default") = 0
       /\ \E body \in ChatBodies, st \in Stubs : ChatBegin(body, st)
    \/ ChatLoop
    \/ ChatFinish
    \/ /\ pc = "idle"
       /\ \E raw \in FewQueries, drv \in DriverBehaviours :
                /\ HasResultSet(raw) => drv.desc
                /\ RunQuery(raw, drv)
    \/ /\ pc = "idle"
       /\ \E raw \in FewQueries, drv \in DriverBehaviours : AiRun(raw, "check", drv)
    \/ /\ pc = "idle"
       /\ \E call \in ToolCalls, drv \in DriverBehaviours :
                ToolCall(call.name, call.args, drv)
    \/ RequestEnd

Next == Step /\ UNCHANGED <<handled, threads>>

Spec == Init /\ [][Next]_vars

-----------------------------------------------------------------------------
(* Queries: /run, /ai-run and the two query tools on every query string *)

InitQuery == InitWith({TRUE})

StepQuery ==
    \/ /\ pc = "idle"
       /\ \E raw \in Queries, drv \in DriverBehaviours :
                /\ HasResultSet(raw) => drv.desc
                /\ RunQuery(raw, drv)
    \/ /\ pc = "idle"
       /\ \E raw \in Queries, drv \in DriverBehaviours : AiRun(raw, "check", drv)
    \/ /\ pc = "idle"
       /\ \E call \in QueryToolCalls, drv \in DriverBehaviours :
                ToolCall(call.name, call.args, drv)
    \/ RequestEnd

NextQuery == StepQuery /\ UNCHANGED <<handled, threads>>

SpecQuery == InitQuery /\ [][NextQuery]_vars

-----------------------------------------------------------------------------
(* Sessions: /ai-chat requests that fill the session map up to its cap and *)
(* go beyond it.  The first FillCount requests are for new sessions, in    *)
(* ascending or in descending order of their numbers, and succeed; the     *)
(* MaxExtra requests after them are for any of the identifiers left, for   *)
(* the session created first, for session "1" or for a new session "0",   *)
(* and the model API may fail them.                                        *)

FillCount == SessionCap - 1

PlainStub == [rounds |-> 0, pattern |-> "one", apiFailAt |-> 0, strictText |-> TRUE]

FailingStub == [PlainStub EXCEPT !.apiFailAt = 1]

SessionBody(sid) == [messages |-> <<UserMessage("hi")>>, sessionId |-> sid]

Filling == Len(served) < FillCount

NextSessionIds ==
    IF conversation_sessions = <<>> THEN {Dec(1), Dec(FillCount)}
    ELSE IF Filling THEN
        IF conversation_sessions[1].key = Dec(1)
        THEN {Dec(Len(conversation_sessions) + 1)}
        ELSE {Dec(FillCount - Len(conversation_sessions))}
    ELSE {Dec(n) : n \in (FillCount + 1)..(SessionCap + ExtraIds)}
         \cup {served[1], Dec(1), Dec(0)}

InitSessions == InitWith({TRUE})

NextSessions ==
    \/ /\ pc = "idle"
       /\ handled < FillCount + MaxExtra
       /\ handled' = handled + 1
       /\ UNCHANGED threads
       /\ \E sid \in NextSessionIds :
            \E st \in (IF Filling THEN {PlainStub} ELSE {PlainStub, FailingStub}) :
                ChatBegin(SessionBody(sid), st)
    \/ ChatLoop /\ UNCHANGED <<handled, threads>>
    \/ ChatFinish /\ UNCHANGED <<handled, threads>>
    \/ RequestEnd /\ UNCHANGED <<handled, threads>>

SpecSessions == InitSessions /\ [][NextSessions]_vars

-----------------------------------------------------------------------------
(* Turns: a few requests one after the other, among them /ai-chat requests *)
(* for two sessions that succeed or fail at each place they can, so that a *)
(* session is asked about again once it has stored history.                *)

TurnSessions == {"default", "s2"}

\* The body of the request number n for a session: the client sends the
\* message of the turn (the sessionId is left out for the default session).
TurnBody(sid, n) ==
    IF sid = "default"
    THEN [messages |-> <<UserMessage("question " \o Dec(n))>>]
    ELSE [messages |-> <<UserMessage("question " \o Dec(n))>>, sessionId |-> sid]

TurnBodies(n) == {TurnBody(sid, n) : sid \in TurnSessions} \cup {[messages |-> <<>>]}

TurnStubs ==
    {PlainStub, FailingStub,
     [rounds |-> 1, pattern |-> "one", apiFailAt |-> 0, strictText |-> TRUE],
     [rounds |-> 1, pattern |-> "one", apiFailAt |-> 2, strictText |-> TRUE],
     [rounds |-> 1, pattern |-> "badargs", apiFailAt |-> 0, strictText |-> TRUE],
     [rounds |-> max_iterations + 1, pattern |-> "one", apiFailAt |-> 0,
      strictText |-> TRUE]}

InitTurns == InitWith(BOOLEAN)

NextTurns ==
    \/ /\ pc = "idle"
       /\ handled < MaxTurns
       /\ handled' = handled + 1
       /\ UNCHANGED threads
       /\ \E body \in TurnBodies(handled + 1), st \in TurnStubs : ChatBegin(body, st)
    \/ ChatLoop /\ UNCHANGED <<handled, threads>>
    \/ ChatFinish /\ UNCHANGED <<handled, threads>>
    \/ /\ pc = "idle"
       /\ handled < MaxTurns
       /\ handled' = handled + 1
       /\ UNCHANGED threads
       /\ RunQuery("update t set a = 1", DriverOK)
    \/ /\ pc = "idle"
       /\ handled < MaxTurns
       /\ handled' = handled + 1
       /\ UNCHANGED threads
       /\ AiRun(" select 1", "check", DriverOK)
    \/ RequestEnd /\ UNCHANGED <<handled, threads>>

SpecTurns == InitTurns /\ [][NextTurns]_vars

-----------------------------------------------------------------------------
(* Concurrency: two /ai-chat requests for different sessions handled in    *)
(* two threads.  The map starts as sequential requests leave it, just      *)
(* below or at its cap; the model answers each request with plain text, so *)
(* the steps between the get-or-create and the appends touch no shared     *)
(* state.  Each action is one access to conversation_sessions, which the   *)
(* interpreter lock makes atomic; the threads interleave between them.     *)

\* The text of the model's reply to a request it answers at once
PlainResponseText == ModelResponse(PlainStub, 1).text

\* The map after successful first requests for the sessions "1" .. Dec(n)
RECURSIVE Prefilled(_)
Prefilled(n) ==
    IF n = 0 THEN <<>>
    ELSE Append(Prefilled(n - 1),
                [key |-> Dec(n),
                 msgs |-> <<UserMessage("hi"),
                            [role |-> "assistant", content |-> "answer 1"]>>])

\* Session identifiers of the concurrent requests: one stored, two new; a
\* request for any of them succeeds when it is handled on its own.
ConcurrentIds == {"50", Dec(SessionCap + 1), Dec(SessionCap + 2)}

\* conversation_sessions[key] raises KeyError(key); str(e) is repr(key)
KeyError(key) == "'" \o key \o "'"

\* except Exception as e: return jsonify({"success": False, "error": str(e)}), 500
Raise(t, msg) ==
    threads' = [threads EXCEPT ![t].pc = "done", ![t].http = ErrorResponse(500, msg)]

\* Lines 619-628: the request's fields and the get-or-create of its session
Accept(t, sid) ==
    /\ threads[t].pc = "idle"
    /\ \A u \in Threads : threads[u].session_id # sid
    /\ conversation_sessions' = GetOrCreate(conversation_sessions, sid)
    /\ threads' = [threads EXCEPT ![t].pc = "build", ![t].session_id = sid,
                                  ![t].current_message = "question " \o Dec(t)]

\* Lines 631-667: chat_history read from the session's entry, and the
\* exchange with the model
BuildAndSend(t) ==
    /\ threads[t].pc = "build"
    /\ UNCHANGED conversation_sessions
    /\ IF threads[t].session_id \in Keys(conversation_sessions)
       THEN threads' = [threads EXCEPT ![t].pc = "append_user"]
       ELSE Raise(t, KeyError(threads[t].session_id))

\* Lines 737-740 and 741-744: one append to the session's entry
AppendStored(t, at, role, content, then) ==
    /\ threads[t].pc = at
    /\ IF threads[t].session_id \in Keys(conversation_sessions)
       THEN /\ conversation_sessions' =
                    AppendMessage(conversation_sessions, threads[t].session_id,
                                  [role |-> role, content |-> content])
            /\ threads' = [threads EXCEPT ![t].pc = then]
       ELSE /\ Raise(t, KeyError(threads[t].session_id))
            /\ UNCHANGED conversation_sessions

AppendUser(t) ==
    AppendStored(t, "append_user", "user", threads[t].current_message, "append_assistant")

AppendAssistant(t) ==
    AppendStored(t, "append_assistant", "assistant", PlainResponseText, "size_check")

\* Line 747: if len(conversation_sessions) > 100
SizeCheck(t) ==
    /\ threads[t].pc = "size_check"
    /\ UNCHANGED conversation_sessions
    /\ threads' = [threads EXCEPT
                    ![t].pc = IF Len(conversation_sessions) > SessionCap
                              THEN "min_key" ELSE "read_history"]

\* Line 748: oldest_key = min(conversation_sessions.keys())
MinKey(t) ==
    /\ threads[t].pc = "min_key"
    /\ UNCHANGED conversation_sessions
    /\ threads' = [threads EXCEPT ![t].pc = "delete",
                                  ![t].oldest_key = OldestKey(conversation_sessions)]

\* Line 749: del conversation_sessions[oldest_key]
DeleteOldest(t) ==
    /\ threads[t].pc = "delete"
    /\ IF threads[t].oldest_key \in Keys(conversation_sessions)
       THEN /\ conversation_sessions' = Delete(conversation_sessions, threads[t].oldest_key)
            /\ threads' = [threads EXCEPT ![t].pc = "read_history"]
       ELSE /\ Raise(t, KeyError(threads[t].oldest_key))
            /\ UNCHANGED conversation_sessions

\* Lines 751-758: the response, with conversation_sessions[session_id] read again
ReadHistory(t) ==
    /\ threads[t].pc = "read_history"
    /\ UNCHANGED conversation_sessions
    /\ IF threads[t].session_id \in Keys(conversation_sessions)
       THEN threads' = [threads EXCEPT
                ![t].pc = "done",
                ![t].http = [status |-> 200,
                             body |-> [success |-> TRUE,
                                       response |-> PlainResponseText,
                                       tool_calls |-> <<>>,
                                       iterations |-> 0,
                                       history |-> History(conversation_sessions,
                                                           threads[t].session_id)]]]
       ELSE Raise(t, KeyError(threads[t].session_id))

InitConcurrent ==
    /\ model_ok = TRUE
    /\ conversation_sessions \in {Prefilled(FillCount), Prefilled(SessionCap)}
    /\ pc = "idle"
    /\ endpoint = ""
    /\ request = [none |-> TRUE]
    /\ driver = DriverOK
    /\ session_id = ""
    /\ current_message = ""
    /\ chat_history = <<>>
    /\ stub = NoStub
    /\ sent = <<>>
    /\ response = NoResponse
    /\ tool_calls = <<>>
    /\ iterations = 0
    /\ requested = <<>>
    /\ dispatched = <<>>
    /\ driver_log = <<>>
    /\ http = NoHttp
    /\ served = <<>>
    /\ handled = 0
    /\ threads = NoThreads

sequentialVars == <<model_ok, pc, endpoint, request, driver, session_id, current_message,
                    chat_history, stub, sent, response, tool_calls, iterations,
                    requested, dispatched, driver_log, http, served, handled>>

SequentialIdle == UNCHANGED sequentialVars

NextConcurrent ==
    \E t \in Threads :
        \/ SequentialIdle /\ \E sid \in ConcurrentIds : Accept(t, sid)
        \/ SequentialIdle /\ BuildAndSend(t)
        \/ SequentialIdle /\ AppendUser(t)
        \/ SequentialIdle /\ AppendAssistant(t)
        \/ SequentialIdle /\ SizeCheck(t)
        \/ SequentialIdle /\ MinKey(t)
        \/ SequentialIdle /\ DeleteOldest(t)
        \/ SequentialIdle /\ ReadHistory(t)

SpecConcurrent == InitConcurrent /\ [][NextConcurrent]_vars

-----------------------------------------------------------------------------
(* Properties *)

ChatDone == pc = "done" /\ endpoint = "/ai-chat"

\* The request passed the checks of lines 613-624.
ChatAccepted == model_ok /\ request.messages # <<>>

KnownCalls(pattern) ==
    {i \in 1..Len(CallPattern(pattern)) : CallPattern(pattern)[i].name \in ToolNames}

\* Every call of the pattern to a known tool passes arguments that bind.
WellFormed(pattern) ==
    \A i \in KnownCalls(pattern) :
        Binds(CallPattern(pattern)[i].name, CallPattern(pattern)[i].args)

HasError(env) == "error" \in DOMAIN env /\ env.error \in STRING /\ env.error # ""

IsFailure(env) == env.success = FALSE /\ HasError(env)

NoExecute(log) == \A i \in 1..Len(log) : log[i].op # "execute"

NoCommit(log) == \A i \in 1..Len(log) : log[i].op # "commit"

\* C1: when every response of the model asks for at least one known tool,
\* the /ai-chat request ends as a success whose `iterations` is the cap and
\* whose `response` is the text of the last model response.
C1_CapReachedReturnsLastText ==
    (/\ ChatDone /\ ChatAccepted
     /\ stub.rounds > max_iterations /\ stub.apiFailAt = 0
     /\ KnownCalls(stub.pattern) # {} /\ WellFormed(stub.pattern))
    => (/\ http.status = 200
        /\ http.body.success
        /\ http.body.iterations = max_iterations
        /\ http.body.response = response.text)

\* C2: when the first k < 15 responses each ask for one known tool and the
\* next response asks for none, the loop stops at that response: iterations
\* = k, tool_calls holds k records and `response` is that response's text.
C2_StopsAtToolFreeResponse ==
    (/\ ChatDone /\ ChatAccepted
     /\ stub.rounds < max_iterations /\ stub.apiFailAt = 0
     /\ Len(CallPattern(stub.pattern)) = 1
     /\ KnownCalls(stub.pattern) = {1} /\ WellFormed(stub.pattern))
    => (/\ http.status = 200
        /\ http.body.success
        /\ http.body.iterations = stub.rounds
        /\ Len(http.body.tool_calls) = stub.rounds
        /\ \A i \in 1..stub.rounds :
                /\ http.body.tool_calls[i].function = CallPattern(stub.pattern)[1].name
                /\ http.body.tool_calls[i].iteration = i
        /\ http.body.response = ModelResponse(stub, stub.rounds + 1).text
        /\ response.calls = <<>>
        /\ Len(sent) = stub.rounds + 1)

C2_Witness ==
    /\ ChatDone /\ ChatAccepted
    /\ stub.rounds = 1 /\ stub.pattern = "one" /\ stub.apiFailAt = 0
    /\ http.status = 200
    /\ Len(http.body.tool_calls) = 1
    /\ http.body.tool_calls[1].function = "describe_table"
    /\ http.body.response = "answer 2"

\* C3: every pass of the loop feeds one result per requested call back to
\* the model in a follow-up turn, and the result for a name that is not in
\* TOOL_FUNCTIONS is a failure envelope.
C3_UnknownToolFedBack ==
    (endpoint = "/ai-chat" /\ pc \in {"loop", "finish"})
    => \A i \in 1..Len(dispatched) :
            /\ Len(sent) >= i + 1
            /\ Len(sent[i + 1]) = Len(dispatched[i])
            /\ \A j \in 1..Len(dispatched[i]) :
                    dispatched[i][j].name \notin ToolNames
                    => /\ sent[i + 1][j].name = dispatched[i][j].name
                       /\ IsFailure(sent[i + 1][j].response)

\* C4: between requests the session map holds at most 100 sessions, whether
\* the requests before succeeded or ended in an error.
C4_AtMostCapSessions == pc = "idle" => Len(conversation_sessions) <= SessionCap

MissingSessions == {served[i] : i \in 1..Len(served)} \ Keys(conversation_sessions)

\* C5: after successful requests for 101 distinct session identifiers (and
\* no other request), exactly one of them is gone from the map: the one
\* that was inserted first.
C5_OldestInsertedEvicted ==
    (pc = "idle" /\ Len(served) = SessionCap + 1 /\ handled = SessionCap + 1)
    => MissingSessions = {served[1]}

\* C6: a /run statement whose lower-cased text contains "drop database" or
\* "truncate database" gets a failure envelope, and no call is made on the
\* driver for it.
C6_DenylistNeverReachesDriver ==
    (/\ pc = "done" /\ endpoint = "/run"
     /\ \/ contains(lower(request.query), "drop database")
        \/ contains(lower(request.query), "truncate database"))
    => (IsFailure(http.body) /\ driver_log = <<>>)

C6_Witness ==
    /\ pc = "done" /\ endpoint = "/run"
    /\ request.query = "\nDROP DataBase"
    /\ IsFailure(http.body)
    /\ driver_log = <<>>

\* The operations that take a query, the query they were given and the verbs
\* they allow
IsQueryOperation ==
    \/ endpoint = "/ai-run"
    \/ /\ endpoint = "tool"
       /\ request.name \in {"execute_select_query", "execute_autonomous_query"}
       /\ Binds(request.name, request.args)

GivenQuery == IF endpoint = "/ai-run" THEN request.query ELSE request.args.query

AllowedVerbs ==
    IF endpoint = "tool" /\ request.name = "execute_select_query"
    THEN {"select", "show", "describe"} ELSE {"select"}

BeginsWithAllowedVerb(text) == \E verb \in AllowedVerbs : startswith(text, verb)

\* C7 as stated: no statement is passed to the driver whose case-folded
\* form, not trimmed, does not begin with an allowed verb.
C7_UntrimmedVerbCheck ==
    (pc = "done" /\ IsQueryOperation)
    => \A i \in 1..Len(driver_log) :
            driver_log[i].op = "execute"
            => BeginsWithAllowedVerb(lower(driver_log[i].stmt))

\* C7 as amended: a query whose case-folded form, with the whitespace around
\* it trimmed, does not begin with an allowed verb gets a failure envelope,
\* and no call is made on the driver for it.
C7_TrimmedVerbCheck ==
    (/\ pc = "done" /\ IsQueryOperation
     /\ ~BeginsWithAllowedVerb(lower(strip(GivenQuery))))
    => (IsFailure(http.body) /\ driver_log = <<>>)

C7_Witness ==
    /\ pc = "done" /\ endpoint = "tool"
    /\ request.name = "execute_select_query"
    /\ request.args.query = " insert"
    /\ IsFailure(http.body)
    /\ driver_log = <<>>

EndsWith(text, suffix) ==
    Len(text) >= Len(suffix)
    /\ SubSeq(text, Len(text) - Len(suffix) + 1, Len(text)) = suffix

\* C8: a non-empty /run statement that passes the denylist and runs without
\* a driver exception returns a list of rows and commits nothing when it
\* begins, leading whitespace and case aside, with select, show or describe;
\* otherwise it commits and returns a status string with the driver's
\* affected-row count.
C8_ReadsListOthersCommit ==
    (/\ pc = "done" /\ endpoint = "/run"
     /\ strip(request.query) # ""
     /\ ~contains(lower(request.query), "drop database")
     /\ ~contains(lower(request.query), "truncate database")
     /\ driver.fail = "none")
    => IF \E verb \in {"select", "show", "describe"} :
                startswith(lower(lstrip(request.query)), verb)
       THEN /\ http.body.success
            /\ "list" \in DOMAIN http.body.data
            /\ NoCommit(driver_log)
       ELSE /\ http.body.success
            /\ "str" \in DOMAIN http.body.data
            /\ EndsWith(http.body.data.str, "Rows affected: " \o Dec(driver.rowcount))
            /\ ~NoCommit(driver_log)

\* The driver raised during a /run, /ai-run or tool call: the last call made
\* on it is the one it fails.
DriverRaised ==
    /\ endpoint \in {"/run", "/ai-run", "tool"}
    /\ driver_log # <<>>
    /\ driver_log[Len(driver_log)].op = driver.fail

\* C9: every response and every tool result with success = false carries an
\* error string, and an exception the driver raises at cursor, execute,
\* fetch, commit or close becomes a failure envelope with the exception's
\* message and is not raised to the caller.
C9_FailuresCarryError ==
    pc = "done"
    => /\ (http.body.success = FALSE /\ (endpoint = "tool" => http.raised = ""))
            => HasError(http.body)
       /\ DriverRaised
            => /\ http.body.success = FALSE
               /\ http.body.error = DriverError(driver.fail)
               /\ endpoint = "tool" => http.raised = ""
       /\ \A i \in 1..Len(tool_calls) :
            /\ tool_calls[i].result.success = FALSE => HasError(tool_calls[i].result)
            /\ stub.pattern = "dbfail"
                    => tool_calls[i].result.error = DriverError("execute")

C9_Witness ==
    /\ pc = "done" /\ endpoint = "tool"
    /\ request.name = "list_tables"
    /\ driver.fail = "fetch"
    /\ DriverRaised
    /\ http.raised = ""
    /\ http.body = [success |-> FALSE, error |-> DriverError("fetch")]

\* C10: the tool_calls log of a successful /ai-chat response has one record
\* for every function call the model requested, in the order requested, with
\* its name and arguments; the iteration numbers do not decrease, lie in
\* 1..iterations, and every iteration counted has a record.
C10_LogHoldsEveryRequestedCall ==
    (ChatDone /\ http.status = 200)
    => LET log == http.body.tool_calls IN
       /\ Len(log) = Len(requested)
       /\ \A i \in 1..Len(log) :
            /\ log[i].function = requested[i].name
            /\ log[i].args = requested[i].args
            /\ "success" \in DOMAIN log[i].result
            /\ log[i].iteration \in 1..http.body.iterations
            /\ i > 1 => log[i - 1].iteration <= log[i].iteration
       /\ \A n \in 1..http.body.iterations : \E i \in 1..Len(log) : log[i].iteration = n

\* The entry of the conversation for a stored message
AsContent(msg) == [role |-> GeminiRole(msg.role), parts |-> <<msg.content>>]

\* C11: the conversation of every /ai-chat request that reaches the model
\* is the system instructions first, then every stored turn of the session
\* in order, then the new user message last.
C11_ConversationSent ==
    (endpoint = "/ai-chat" /\ pc \in {"loop", "finish"})
    => LET stored == History(conversation_sessions, session_id)
           n == Len(chat_history)
       IN  /\ n >= Len(stored) + 2
           /\ chat_history[1] = [role |-> "user", parts |-> <<SYSTEM_PROMPT>>]
           /\ \A i \in 1..Len(stored) :
                    chat_history[n - 1 - Len(stored) + i] = AsContent(stored[i])
           /\ chat_history[n] = [role |-> "user", parts |-> <<current_message>>]
           /\ sent[1] = current_message

\* A call of the request was dispatched to a known tool with arguments its
\* signature does not bind (a required one missing or an unknown one given).
BadArgumentsDispatched ==
    \E i \in 1..Len(dispatched) : \E j \in 1..Len(dispatched[i]) :
        /\ dispatched[i][j].name \in ToolNames
        /\ ~Binds(dispatched[i][j].name, dispatched[i][j].args)

\* C12: an /ai-chat request in which the model calls a known tool with
\* arguments that do not bind, and in which the model API itself does not
\* fail, does not end with HTTP 500: it ends with status 200 or 400 and the
\* call's result is a failure envelope that carries an error message.
C12_BadArgumentsGiveEnvelope ==
    (/\ ChatDone /\ ChatAccepted /\ BadArgumentsDispatched
     /\ stub.apiFailAt = 0 /\ stub.rounds < max_iterations)
    => /\ http.status \in {200, 400}
       /\ \E i \in 1..Len(tool_calls) :
            /\ ~Binds(tool_calls[i].function, tool_calls[i].args)
            /\ IsFailure(tool_calls[i].result)

\* The operation turned the query down before any call on the driver.
RejectedBeforeExecution(result) == result.ops = <<>> /\ ~result.body.success

\* C13: /ai-run turns a query down before execution exactly when
\* execute_autonomous_query, given the same query, turns it down before
\* execution.
C13_SameDenylist ==
    /\ (pc = "done" /\ endpoint = "/ai-run")
        => LET tool == execute_autonomous_query(request.query, request.purpose, driver)
           IN  (driver_log = <<>> /\ ~http.body.success)
               <=> (tool.ops = <<>> /\ ~tool.env.success)
    /\ (/\ pc = "done" /\ endpoint = "tool"
        /\ request.name = "execute_autonomous_query"
        /\ Binds(request.name, request.args))
        => (driver_log = <<>> /\ ~http.body.success)
           <=> RejectedBeforeExecution(
                    ai_autonomous_query(request.args.query, request.args.purpose, driver))

\* A call of preview_table_data on its own, with arguments that bind
PreviewCalled ==
    /\ pc = "done" /\ endpoint = "tool"
    /\ request.name = "preview_table_data"
    /\ Binds(request.name, request.args)

PreviewStatement(n) == "SELECT * FROM " \o BQ \o request.args.table_name \o BQ
                       \o " LIMIT " \o Dec(n)

\* C14: whatever integer limit preview_table_data is called with, the
\* statement it executes ends in LIMIT n with n in 1..50, and the rows it
\* returns are at most 50.
C14_PreviewLimitClamped ==
    PreviewCalled
    => /\ \A i \in 1..Len(driver_log) :
            driver_log[i].op = "execute"
            => \E n \in 1..50 : driver_log[i].stmt = PreviewStatement(n)
       /\ http.body.success
            => (Len(http.body.data) <= 50 /\ http.body.row_count = Len(http.body.data))

C14_Witness ==
    /\ PreviewCalled
    /\ "limit" \in DOMAIN request.args
    /\ request.args.limit = 1000
    /\ driver.nrows = BigRows
    /\ Len(driver_log) >= 2
    /\ driver_log[2] = Executed(PreviewStatement(50))
    /\ http.body.success
    /\ http.body.row_count = 50

\* C15: preview_table_data called with limit = 0, or without a limit,
\* executes its statement with the default limit of 10.
C15_ZeroOrAbsentLimitIsDefault ==
    (PreviewCalled /\ ("limit" \in DOMAIN request.args => request.args.limit = 0))
    => \A i \in 1..Len(driver_log) :
            driver_log[i].op = "execute" => driver_log[i].stmt = PreviewStatement(10)

\* A call of execute_select_query on its own, with arguments that bind
SelectQueryCalled ==
    /\ pc = "done" /\ endpoint = "tool"
    /\ request.name = "execute_select_query"
    /\ Binds(request.name, request.args)

\* C16: execute_select_query turns down, without a call on the driver, every
\* statement that is not a SELECT, and every statement it passes to the
\* driver carries a row cap (a LIMIT clause), appended when the caller's
\* query had none.
C16_SelectOnlyWithRowCap ==
    SelectQueryCalled
    => /\ ~startswith(lower(strip(request.args.query)), "select")
            => (IsFailure(http.body) /\ driver_log = <<>>)
       /\ \A i \in 1..Len(driver_log) :
            driver_log[i].op = "execute"
            => contains(lower(driver_log[i].stmt), "limit")

\* The model exchange and the tool loop of the request went through: no
\* send_message raised, every call bound its arguments, and the last
\* response holds text only.
ExchangeCompleted ==
    /\ ChatDone /\ ChatAccepted
    /\ stub.apiFailAt = 0
    /\ ~BadArgumentsDispatched
    /\ response.calls = <<>>
    /\ sent # <<>>

\* C17: an /ai-chat request whose model exchange and tool loop went through
\* answers success = true with `history` equal to the messages stored for
\* its own session, which is still in the map after the clean-up.
C17_OwnSessionSurvivesCleanup ==
    ExchangeCompleted
    => /\ http.status = 200
       /\ http.body.success
       /\ session_id \in Keys(conversation_sessions)
       /\ http.body.history = History(conversation_sessions, session_id)

\* user, assistant, user, assistant, ...: an even number of messages
Alternating(msgs) ==
    /\ Len(msgs) % 2 = 0
    /\ \A i \in 1..Len(msgs) :
            msgs[i].role = (IF i % 2 = 1 THEN "user" ELSE "assistant")

\* The messages stored under a key (none when the key has no entry)
Stored(sessions, key) == IF key \in Keys(sessions) THEN History(sessions, key) ELSE <<>>

\* C18: with requests handled one after the other, every stored history
\* alternates user, assistant and has even length at all times; the step
\* that completes a successful /ai-chat request appends the request's user
\* message and then the assistant's reply to its own session and changes the
\* messages of no other session; every other step (of an /ai-chat request
\* that ends in an error, of /run, of /ai-run) changes the messages of no
\* session.
C18_HistoriesAlternateAndFrame ==
    /\ [](\A i \in 1..Len(conversation_sessions) :
                Alternating(conversation_sessions[i].msgs))
    /\ [][\A key \in Keys(conversation_sessions') :
            LET before == Stored(conversation_sessions, key)
                after == History(conversation_sessions', key)
            IN  IF /\ endpoint = "/ai-chat" /\ pc = "finish" /\ pc' = "done"
                   /\ http'.status = 200
                   /\ key = session_id
                THEN after = before \o <<[role |-> "user", content |-> current_message],
                                         [role |-> "assistant",
                                          content |-> http'.body.response]>>
                ELSE after = before]_vars

C18_Witness ==
    /\ ChatDone /\ http.status = 200
    /\ session_id = "default"
    /\ Len(http.body.history) = 4
    /\ http.body.history[3] = [role |-> "user", content |-> current_message]
    /\ http.body.history[4] = [role |-> "assistant", content |-> http.body.response]
    /\ "s2" \in Keys(conversation_sessions)
    /\ Len(History(conversation_sessions, "s2")) = 2

BothDone == \A t \in Threads : threads[t].pc = "done"

\* C19: when two /ai-chat requests for different sessions, each of which
\* succeeds when handled alone, are handled concurrently, both end with
\* success = true (no KeyError from a session or key the other request
\* removed), each session's own history ends with its own two messages, and
\* the map holds at most 100 sessions once both have finished.
C19_ConcurrentRequestsSucceed ==
    BothDone
    => /\ \A t \in Threads :
            /\ threads[t].http.status = 200
            /\ threads[t].http.body.success
            /\ LET history == threads[t].http.body.history
                   n == Len(history)
               IN  /\ n >= 2
                   /\ history[n - 1] = UserMessage(threads[t].current_message)
                   /\ history[n] = [role |-> "assistant", content |-> PlainResponseText]
       /\ Len(conversation_sessions) <= SessionCap

=============================================================================
